---- MODULE Spec2Model ----
(***************************************************************************)
(* SqliteCryptoStorageProvider (matrix-bot-sdk): the crypto session store. *)
(*                                                                         *)
(* The database is a record of tables, each table the set of its rows.     *)
(* Every prepared statement of the constructor is an operator on the       *)
(* database, named as in the source; every public method is an action.     *)
(* A method run inside db.transaction is the sequence of its statements    *)
(* (its "body"): the atomic actions apply the whole body with Transaction, *)
(* SpecTxn executes the same bodies one statement at a time.               *)
(***************************************************************************)
EXTENDS Integers, Sequences, FiniteSets, TLC

VARIABLES
    db,     \* the committed database: what the file holds
    tx,     \* the connection's open transaction (SpecTxn), or Idle
    ret,    \* the last completed call: method, arguments, threw?, result
    hist    \* history of the calls made (what was asked of the store)

vars == <<db, tx, ret, hist>>

----------------------------------------------------------------------------
(* Bounds of the model *)

\* usesLeft of a stored session is drawn from 0..MaxUsesLeft
MaxUsesLeft == 1
\* at most MaxUses calls of useOutboundGroupSession per row between two stores
MaxUses == 2
\* a device list has at most MaxDevices entries
MaxDevices == 2
\* flagUsersOutdated takes at most MaxBatch user ids
MaxBatch == 2
\* lastDecryptionTs is drawn from 1..MaxTs
MaxTs == 3
\* a ratchet index is drawn from 0..MaxIndex
MaxIndex == 1

Users == {"@alice", "@bob"}
DeviceIds == {"DEVA", "DEVB"}
Rooms == {"!r1", "!r2"}
SessionIds == {"s1", "s2"}
OlmSessionIds == {"o1", "o2", "o3"}
Pickles == {"pickleA", "pickleB"}

\* JS null / undefined bound to a statement parameter: SQL NULL
Null == "<null>"
\* the value of a property that is present but undefined
Undefined == "<undefined>"

\* a result that is absent (null, or undefined for a void method)
Absent == [found |-> FALSE]
Found(v) == [found |-> TRUE, value |-> v]

----------------------------------------------------------------------------
(* JSON.stringify / JSON.parse of a flat object with string values.  The  *)
(* text is modelled by its members, the set of <<name, value>> pairs; a   *)
(* property whose value is undefined is left out of the text.             *)

JSONStringify(o) ==
    [json |-> {<<f, o[f]>> : f \in {g \in DOMAIN o : o[g] # Undefined}}]

JSONParse(t) ==
    [f \in {p[1] : p \in t.json} |-> (CHOOSE p \in t.json : p[1] = f)[2]]

----------------------------------------------------------------------------
(* The tables (constructor, CREATE TABLE) *)

EmptyDb ==
    [ kv |-> {}, rooms |-> {}, users |-> {}, user_devices |-> {},
      outbound_group_sessions |-> {}, sent_outbound_group_sessions |-> {},
      olm_sessions |-> {} ]

----------------------------------------------------------------------------
(* The prepared statements.  p is the record of bound parameters.          *)

\* (mutation: ON CONFLICT DO NOTHING, the first value of a name is kept)
kvInsertOnce(d, p) ==
    IF \E r \in d.kv : r.name = p.name
    THEN d
    ELSE [d EXCEPT !.kv = @ \cup {[name |-> p.name, value |-> p.value]}]

\* INSERT INTO kv (name, value) ... ON CONFLICT (name) DO UPDATE SET value
kvUpsert(d, p) ==
    [d EXCEPT !.kv =
        {r \in @ : r.name # p.name} \cup {[name |-> p.name, value |-> p.value]}]

\* SELECT name, value FROM kv WHERE name = @name  (.get)
kvSelect(d, p) ==
    IF \E r \in d.kv : r.name = p.name
    THEN Found(CHOOSE r \in d.kv : r.name = p.name)
    ELSE Absent

\* (mutation: ON CONFLICT DO NOTHING, the first config of a room is kept)
roomInsertOnce(d, p) ==
    IF \E r \in d.rooms : r.room_id = p.roomId
    THEN d
    ELSE [d EXCEPT !.rooms = @ \cup {[room_id |-> p.roomId, config |-> p.config]}]

\* INSERT INTO rooms (room_id, config) ... ON CONFLICT (room_id) DO UPDATE SET config
roomUpsert(d, p) ==
    [d EXCEPT !.rooms =
        {r \in @ : r.room_id # p.roomId}
            \cup {[room_id |-> p.roomId, config |-> p.config]}]

\* SELECT room_id, config FROM rooms WHERE room_id = @roomId  (.get)
roomSelect(d, p) ==
    IF \E r \in d.rooms : r.room_id = p.roomId
    THEN Found(CHOOSE r \in d.rooms : r.room_id = p.roomId)
    ELSE Absent

\* INSERT INTO users ... ON CONFLICT (user_id) DO UPDATE SET outdated
userUpsert(d, p) ==
    [d EXCEPT !.users =
        {r \in @ : r.user_id # p.userId}
            \cup {[user_id |-> p.userId, outdated |-> p.outdated]}]

\* SELECT user_id, outdated FROM users WHERE user_id = @userId  (.get)
userSelect(d, p) ==
    IF \E r \in d.users : r.user_id = p.userId
    THEN Found(CHOOSE r \in d.users : r.user_id = p.userId)
    ELSE Absent

\* INSERT INTO user_devices ... ON CONFLICT (user_id, device_id) DO UPDATE SET device
userDeviceUpsert(d, p) ==
    [d EXCEPT !.user_devices =
        {r \in @ : ~(r.user_id = p.userId /\ r.device_id = p.deviceId)}
            \cup {[user_id |-> p.userId, device_id |-> p.deviceId,
                   device |-> p.device]}]

\* DELETE FROM user_devices WHERE user_id = @userId
userDevicesDelete(d, p) ==
    [d EXCEPT !.user_devices = {r \in @ : r.user_id # p.userId}]

\* SELECT ... FROM user_devices WHERE user_id = @userId  (.all; no ORDER BY,
\* so the rows come as a set)
userDevicesSelect(d, p) ==
    {r \in d.user_devices : r.user_id = p.userId}

\* SELECT ... FROM user_devices WHERE user_id = @userId AND device_id = @deviceId
userDeviceSelect(d, p) ==
    IF \E r \in d.user_devices : r.user_id = p.userId /\ r.device_id = p.deviceId
    THEN Found(CHOOSE r \in d.user_devices :
                    r.user_id = p.userId /\ r.device_id = p.deviceId)
    ELSE Absent

\* INSERT INTO outbound_group_sessions ... ON CONFLICT (session_id, room_id)
\* DO UPDATE SET pickled, current, uses_left, expires_ts
obGroupSessionUpsert(d, p) ==
    [d EXCEPT !.outbound_group_sessions =
        {r \in @ : ~(r.session_id = p.sessionId /\ r.room_id = p.roomId)}
            \cup {[session_id |-> p.sessionId, room_id |-> p.roomId,
                   current |-> p.current, pickled |-> p.pickled,
                   uses_left |-> p.usesLeft, expires_ts |-> p.expiresTs]}]

\* SELECT ... FROM outbound_group_sessions WHERE session_id = .. AND room_id = ..
obGroupSessionSelect(d, p) ==
    LET hit == {r \in d.outbound_group_sessions :
                    r.session_id = p.sessionId /\ r.room_id = p.roomId}
    IN  IF hit = {} THEN Absent ELSE Found(CHOOSE r \in hit : TRUE)

\* SELECT ... FROM outbound_group_sessions WHERE room_id = .. AND current = 1
\* (.get takes the first row; without ORDER BY that is any matching row)
obGroupCurrentSessionSelect(d, p) ==
    {r \in d.outbound_group_sessions : r.room_id = p.roomId /\ r.current = 1}

\* (mutation: the counter stops at zero)
obGroupSessionMarkUsageFloor(d, p) ==
    [d EXCEPT !.outbound_group_sessions =
        {IF r.session_id = p.sessionId /\ r.room_id = p.roomId
            THEN [r EXCEPT !.uses_left = IF @ > 0 THEN @ - 1 ELSE 0]
            ELSE r : r \in @}]

\* (mutation: the counter is reset to its default when it runs out)
obGroupSessionMarkUsageRefill(d, p) ==
    [d EXCEPT !.outbound_group_sessions =
        {IF r.session_id = p.sessionId /\ r.room_id = p.roomId
            THEN [r EXCEPT !.uses_left = IF @ > 0 THEN @ - 1 ELSE 1]
            ELSE r : r \in @}]

\* (mutation: WHERE session_id = @sessionId only, the session id's rows of
\* every room are counted down)
obGroupSessionMarkUsageAnyRoom(d, p) ==
    [d EXCEPT !.outbound_group_sessions =
        {IF r.session_id = p.sessionId
            THEN [r EXCEPT !.uses_left = @ - 1] ELSE r : r \in @}]

\* UPDATE outbound_group_sessions SET uses_left = uses_left - 1 WHERE ...
obGroupSessionMarkUsage(d, p) ==
    [d EXCEPT !.outbound_group_sessions =
        {IF r.session_id = p.sessionId /\ r.room_id = p.roomId
            THEN [r EXCEPT !.uses_left = @ - 1] ELSE r : r \in @}]

\* (mutation: no WHERE clause, the sessions of every room are demoted)
obGroupSessionMarkAllInactiveEverywhere(d, p) ==
    [d EXCEPT !.outbound_group_sessions = {[r EXCEPT !.current = 0] : r \in @}]

\* UPDATE outbound_group_sessions SET current = 0 WHERE room_id = @roomId
obGroupSessionMarkAllInactive(d, p) ==
    [d EXCEPT !.outbound_group_sessions =
        {IF r.room_id = p.roomId THEN [r EXCEPT !.current = 0] ELSE r : r \in @}]

\* (mutation: a plain INSERT, which fails on a row that is there already)
obSentGroupSessionInsert(d, p) ==
    LET row == [session_id |-> p.sessionId, room_id |-> p.roomId,
                session_index |-> p.sessionIndex, user_id |-> p.userId,
                device_id |-> p.deviceId]
    IN  IF row \in d.sent_outbound_group_sessions
        THEN [error |-> "SQLITE_CONSTRAINT"]
        ELSE [d EXCEPT !.sent_outbound_group_sessions = @ \cup {row}]

\* (mutation: only the last row sent to a device for a room is kept)
obSentGroupSessionReplace(d, p) ==
    [d EXCEPT !.sent_outbound_group_sessions =
        {r \in @ : ~(r.user_id = p.userId /\ r.device_id = p.deviceId
                        /\ r.room_id = p.roomId)}
            \cup {[session_id |-> p.sessionId, room_id |-> p.roomId,
                   session_index |-> p.sessionIndex, user_id |-> p.userId,
                   device_id |-> p.deviceId]}]

\* INSERT INTO sent_outbound_group_sessions ... ON CONFLICT (all five) DO NOTHING
obSentGroupSessionUpsert(d, p) ==
    LET row == [session_id |-> p.sessionId, room_id |-> p.roomId,
                session_index |-> p.sessionIndex, user_id |-> p.userId,
                device_id |-> p.deviceId]
    IN  IF row \in d.sent_outbound_group_sessions
        THEN d
        ELSE [d EXCEPT !.sent_outbound_group_sessions = @ \cup {row}]

\* SELECT ... FROM sent_outbound_group_sessions WHERE user_id = .. AND
\* device_id = .. AND room_id = ..   (no ORDER BY: the matching rows)
obSentSelectLastSent(d, p) ==
    {r \in d.sent_outbound_group_sessions :
        r.user_id = p.userId /\ r.device_id = p.deviceId /\ r.room_id = p.roomId}

\* (mutation: ON CONFLICT DO NOTHING, the row of a known session is kept)
olmSessionInsertOnce(d, p) ==
    IF \E r \in d.olm_sessions : r.user_id = p.userId /\ r.device_id = p.deviceId
                                    /\ r.session_id = p.sessionId
    THEN d
    ELSE [d EXCEPT !.olm_sessions = @ \cup
            {[user_id |-> p.userId, device_id |-> p.deviceId,
              session_id |-> p.sessionId,
              last_decryption_ts |-> p.lastDecryptionTs, pickled |-> p.pickled]}]

\* INSERT INTO olm_sessions ... ON CONFLICT (user_id, device_id, session_id)
\* DO UPDATE SET last_decryption_ts, pickled
olmSessionUpsert(d, p) ==
    [d EXCEPT !.olm_sessions =
        {r \in @ : ~(r.user_id = p.userId /\ r.device_id = p.deviceId
                        /\ r.session_id = p.sessionId)}
            \cup {[user_id |-> p.userId, device_id |-> p.deviceId,
                   session_id |-> p.sessionId,
                   last_decryption_ts |-> p.lastDecryptionTs,
                   pickled |-> p.pickled]}]

\* SELECT ... FROM olm_sessions WHERE user_id = .. AND device_id = ..
\* ORDER BY last_decryption_ts DESC LIMIT 1: the rows no other row precedes
olmSessionCurrentSelect(d, p) ==
    LET hit == {r \in d.olm_sessions :
                    r.user_id = p.userId /\ r.device_id = p.deviceId}
    IN  {r \in hit : \A q \in hit : q.last_decryption_ts <= r.last_decryption_ts}

----------------------------------------------------------------------------
(* Statements as data, so that a method's body can be run whole or step by *)
(* step.                                                                    *)

Stmt(name, p) == [stmt |-> name, p |-> p]

\* Every column is NOT NULL: binding SQL NULL to an inserted column fails.
ConstraintFails(s) ==
    CASE s.stmt = "kvUpsert" -> s.p.name = Null \/ s.p.value = Null
      [] s.stmt = "roomUpsert" -> s.p.roomId = Null
      [] s.stmt = "userUpsert" -> s.p.userId = Null
      [] s.stmt = "userDeviceUpsert" -> s.p.userId = Null \/ s.p.deviceId = Null
      [] s.stmt = "obGroupSessionUpsert" ->
            s.p.sessionId = Null \/ s.p.roomId = Null \/ s.p.pickled = Null
      [] s.stmt = "obSentGroupSessionUpsert" ->
            s.p.sessionId = Null \/ s.p.roomId = Null
                \/ s.p.userId = Null \/ s.p.deviceId = Null
      [] s.stmt = "olmSessionUpsert" ->
            s.p.userId = Null \/ s.p.deviceId = Null
                \/ s.p.sessionId = Null \/ s.p.pickled = Null
      [] OTHER -> FALSE

\* statement.run(p) on database d
Exec(d, s) ==
    CASE s.stmt = "kvUpsert" -> kvUpsert(d, s.p)
      [] s.stmt = "roomUpsert" -> roomUpsert(d, s.p)
      [] s.stmt = "userUpsert" -> userUpsert(d, s.p)
      [] s.stmt = "userDevicesDelete" -> userDevicesDelete(d, s.p)
      [] s.stmt = "userDeviceUpsert" -> userDeviceUpsert(d, s.p)
      [] s.stmt = "obGroupSessionMarkAllInactive" ->
            obGroupSessionMarkAllInactive(d, s.p)
      [] s.stmt = "obGroupSessionUpsert" -> obGroupSessionUpsert(d, s.p)
      [] s.stmt = "obGroupSessionMarkUsage" -> obGroupSessionMarkUsage(d, s.p)
      [] s.stmt = "obSentGroupSessionUpsert" -> obSentGroupSessionUpsert(d, s.p)
      [] s.stmt = "olmSessionUpsert" -> olmSessionUpsert(d, s.p)

\* what a statement that fails leaves in place of a database
SqliteError == [error |-> "SQLITE_CONSTRAINT"]

\* statement.run(p): the database after it, or SqliteError
Run(d, s) == IF ConstraintFails(s) THEN SqliteError ELSE Exec(d, s)

\* The statements of body from the i-th on, run on d until one fails.
RECURSIVE RunFrom(_, _, _)
RunFrom(d, body, i) ==
    IF i > Len(body) THEN [db |-> d, threw |-> FALSE]
    ELSE IF Run(d, body[i]) = SqliteError THEN [db |-> d, threw |-> TRUE]
    ELSE RunFrom(Run(d, body[i]), body, i + 1)

\* db.transaction(() => body)(): BEGIN, the body, COMMIT; if a statement
\* throws, ROLLBACK and the exception is thrown on.
Transaction(d, body) ==
    LET r == RunFrom(d, body, 1)
    IN  IF r.threw THEN [db |-> d, threw |-> TRUE] ELSE r

\* A statement run outside a transaction commits by itself, or fails whole.
Autocommit(d, s) ==
    IF Run(d, s) = SqliteError THEN [db |-> d, threw |-> TRUE]
    ELSE [db |-> Run(d, s), threw |-> FALSE]

----------------------------------------------------------------------------
(* The bodies of the methods that write *)

\* (mutation: the old device rows are not deleted)
setUserDevicesBodyNoDelete(userId, devices) ==
    << Stmt("userUpsert", [userId |-> userId, outdated |-> 0]) >>
    \o [i \in 1..Len(devices) |->
            Stmt("userDeviceUpsert",
                 [userId |-> userId, deviceId |-> devices[i].device_id,
                  device |-> JSONStringify(devices[i])])]

\* setUserDevices: userUpsert(outdated 0), userDevicesDelete, one
\* userDeviceUpsert per device of the list, in order
setUserDevicesBody(userId, devices) ==
    << Stmt("userUpsert", [userId |-> userId, outdated |-> 0]),
       Stmt("userDevicesDelete", [userId |-> userId]) >>
    \o [i \in 1..Len(devices) |->
            Stmt("userDeviceUpsert",
                 [userId |-> userId, deviceId |-> devices[i].device_id,
                  device |-> JSONStringify(devices[i])])]

\* (mutation: a user's device rows are dropped when the user is flagged)
flagUsersOutdatedBodyPurge(userIds) ==
    [i \in 1..(2 * Len(userIds)) |->
        IF i % 2 = 1
        THEN Stmt("userUpsert", [userId |-> userIds[(i + 1) \div 2], outdated |-> 1])
        ELSE Stmt("userDevicesDelete", [userId |-> userIds[i \div 2]])]

\* (mutation: every user that is flagged is marked as fetched)
flagUsersOutdatedBodyFresh(userIds) ==
    [i \in 1..Len(userIds) |->
        Stmt("userUpsert", [userId |-> userIds[i], outdated |-> 0])]

\* flagUsersOutdated: one userUpsert(outdated 1) per user id, in order
flagUsersOutdatedBody(userIds) ==
    [i \in 1..Len(userIds) |->
        Stmt("userUpsert", [userId |-> userIds[i], outdated |-> 1])]

\* storeOutboundGroupSession (mutation: the demotion step is left out)
storeOutboundGroupSessionBodyNoDemote(session) ==
    << Stmt("obGroupSessionUpsert",
            [sessionId |-> session.sessionId, roomId |-> session.roomId,
             pickled |-> session.pickled,
             current |-> IF session.isCurrent THEN 1 ELSE 0,
             usesLeft |-> session.usesLeft, expiresTs |-> session.expiresTs]) >>

\* storeOutboundGroupSession (mutation: the room is demoted whether or not
\* the session is current)
storeOutboundGroupSessionBodyAlwaysDemote(session) ==
    << Stmt("obGroupSessionMarkAllInactive", [roomId |-> session.roomId]),
       Stmt("obGroupSessionUpsert",
            [sessionId |-> session.sessionId, roomId |-> session.roomId,
             pickled |-> session.pickled,
             current |-> IF session.isCurrent THEN 1 ELSE 0,
             usesLeft |-> session.usesLeft, expiresTs |-> session.expiresTs]) >>

\* storeOutboundGroupSession: if the session is current, mark all of the
\* room inactive; then upsert the row
storeOutboundGroupSessionBody(session) ==
    (IF session.isCurrent
        THEN << Stmt("obGroupSessionMarkAllInactive", [roomId |-> session.roomId]) >>
        ELSE << >>)
    \o << Stmt("obGroupSessionUpsert",
               [sessionId |-> session.sessionId, roomId |-> session.roomId,
                pickled |-> session.pickled,
                current |-> IF session.isCurrent THEN 1 ELSE 0,
                usesLeft |-> session.usesLeft, expiresTs |-> session.expiresTs]) >>

\* the IOutboundGroupSession built from a row (getOutboundGroupSession,
\* getCurrentOutboundGroupSession)
SessionOfRow(r) ==
    [sessionId |-> r.session_id, roomId |-> r.room_id, pickled |-> r.pickled,
     isCurrent |-> (r.current = 1), usesLeft |-> r.uses_left,
     expiresTs |-> r.expires_ts]

\* what getOutboundGroupSession(sessionId, roomId) returns on database d
getOutboundGroupSession(d, sessionId, roomId) ==
    LET result == obGroupSessionSelect(d, [sessionId |-> sessionId,
                                           roomId |-> roomId])
    IN  IF result.found THEN Found(SessionOfRow(result.value)) ELSE Absent

\* what getCurrentOutboundGroupSession(roomId) can return on database d
getCurrentOutboundGroupSession(d, roomId) ==
    LET rows == obGroupCurrentSessionSelect(d, [roomId |-> roomId])
    IN  IF rows = {} THEN {Absent} ELSE {Found(SessionOfRow(r)) : r \in rows}

\* what getUserDevices(userId) returns on database d: the parsed devices
\* (the rows are not ordered)
getUserDevices(d, userId) ==
    {JSONParse(r.device) : r \in userDevicesSelect(d, [userId |-> userId])}

\* what getUserDevice(userId, deviceId) returns on database d
getUserDevice(d, userId, deviceId) ==
    LET result == userDeviceSelect(d, [userId |-> userId, deviceId |-> deviceId])
    IN  IF result.found THEN Found(JSONParse(result.value.device)) ELSE Absent

\* (mutation: a user without a row counts as up to date)
isUserOutdatedUnknownFresh(d, userId) ==
    LET user == userSelect(d, [userId |-> userId])
    IN  IF user.found THEN user.value.outdated # 0 ELSE FALSE

\* what isUserOutdated(userId) returns on database d:
\* user ? Boolean(user.outdated) : true
isUserOutdated(d, userId) ==
    LET user == userSelect(d, [userId |-> userId])
    IN  IF user.found THEN user.value.outdated # 0 ELSE TRUE

\* what getDeviceId / getPickleKey / getPickledAccount return on database
\* d: row?.value, the value of the row of the name or undefined
getDeviceId(d) ==
    LET row == kvSelect(d, [name |-> "deviceId"])
    IN  IF row.found THEN Found(row.value.value) ELSE Absent

getPickleKey(d) ==
    LET row == kvSelect(d, [name |-> "pickleKey"])
    IN  IF row.found THEN Found(row.value.value) ELSE Absent

getPickledAccount(d) ==
    LET row == kvSelect(d, [name |-> "pickled"])
    IN  IF row.found THEN Found(row.value.value) ELSE Absent

\* what getRoom(roomId) returns on database d: val ? JSON.parse(val) : null
\* (the text JSON.stringify makes of an object is never the empty string)
getRoom(d, roomId) ==
    LET row == roomSelect(d, [roomId |-> roomId])
    IN  IF row.found THEN Found(JSONParse(row.value.config)) ELSE Absent

----------------------------------------------------------------------------
(* Initial state: a fresh database (":memory:"), no call made *)

Idle == [active |-> FALSE]

\* a completed call: the method, its arguments, whether it threw, its result
Call(op, arg, threw, val) == [op |-> op, arg |-> arg, threw |-> threw, val |-> val]

\* the names of the identity scalars in table kv
ScalarNames == {"deviceId", "pickleKey", "pickled"}
AllSessionKeys == SessionIds \X Rooms
AllSentKeys == Users \X DeviceIds \X Rooms
AllOlmKeys == Users \X DeviceIds \X OlmSessionIds

InitHist ==
    [ \* per (sessionId, roomId): the session last passed to
      \* storeOutboundGroupSession, and the useOutboundGroupSession calls since
      stored |-> [k \in AllSessionKeys |-> Absent],
      uses |-> [k \in AllSessionKeys |-> 0],
      \* per room: the id of the session last stored with isCurrent = true
      lastCurrent |-> [r \in Rooms |-> Absent],
      \* the storeSentOutboundGroupSession calls made (as ledger rows),
      \* whether the last one repeated an earlier one, and per (userId,
      \* deviceId, roomId) the (sessionId, index) of the latest call
      sentCalls |-> {},
      sentRepeated |-> FALSE,
      lastSent |-> [k \in AllSentKeys |-> Absent],
      \* per user: which of setUserDevices ("set") and flagUsersOutdated
      \* ("flag") was last called for the user, "none" if neither was
      lastDevOp |-> [u \in Users |-> "none"],
      \* per user: whether setUserDevices was ever called for the user
      devicesSet |-> [u \in Users |-> FALSE],
      \* per (userId, deviceId, sessionId): the session last passed to
      \* storeOlmSession
      olmLatest |-> [k \in AllOlmKeys |-> Absent],
      \* per identity scalar: the value last passed to its setter
      kvSet |-> [n \in ScalarNames |-> Absent],
      \* per identity scalar: whether a setter replaced another value
      kvOverwritten |-> [n \in ScalarNames |-> FALSE],
      \* per room: the configs passed to storeRoom, the last two of them
      roomStored |-> [r \in Rooms |-> << >>] ]

Init ==
    /\ db = EmptyDb
    /\ tx = Idle
    /\ ret = Call("constructor", <<>>, FALSE, Absent)
    /\ hist = InitHist

----------------------------------------------------------------------------
(* The methods that run a transaction: their bodies, and what a completed  *)
(* call adds to the history                                                *)

BodyOf(op, arg) ==
    CASE op = "setUserDevices" -> setUserDevicesBody(arg[1], arg[2])
      [] op = "flagUsersOutdated" -> flagUsersOutdatedBody(arg)
      [] op = "storeOutboundGroupSession" -> storeOutboundGroupSessionBody(arg)

Recorded(h, op, arg) ==
    CASE op = "setUserDevices" ->
            [h EXCEPT !.lastDevOp[arg[1]] = "set", !.devicesSet[arg[1]] = TRUE]
      [] op = "flagUsersOutdated" ->
            [h EXCEPT !.lastDevOp =
                [u \in Users |-> IF \E i \in 1..Len(arg) : arg[i] = u
                                 THEN "flag" ELSE @[u]]]
      [] op = "storeOutboundGroupSession" ->
            [h EXCEPT !.stored[<<arg.sessionId, arg.roomId>>] = Found(arg),
                      !.uses[<<arg.sessionId, arg.roomId>>] = 0,
                      !.lastCurrent[arg.roomId] =
                            IF arg.isCurrent THEN Found(arg.sessionId) ELSE @]

----------------------------------------------------------------------------
(* Outbound group sessions *)

StoreOutboundGroupSession(session) ==
    /\ ~tx.active
    /\ LET r == Transaction(db, storeOutboundGroupSessionBody(session))
       IN  /\ db' = r.db
           /\ ret' = Call("storeOutboundGroupSession", session, r.threw, Absent)
           /\ hist' = IF r.threw THEN hist
                      ELSE Recorded(hist, "storeOutboundGroupSession", session)
    /\ UNCHANGED tx

GetOutboundGroupSession(sessionId, roomId) ==
    /\ ~tx.active
    /\ ret' = Call("getOutboundGroupSession", <<sessionId, roomId>>, FALSE,
                   getOutboundGroupSession(db, sessionId, roomId))
    /\ UNCHANGED <<db, tx, hist>>

GetCurrentOutboundGroupSession(roomId) ==
    /\ ~tx.active
    /\ \E result \in getCurrentOutboundGroupSession(db, roomId) :
            ret' = Call("getCurrentOutboundGroupSession", roomId, FALSE, result)
    /\ UNCHANGED <<db, tx, hist>>

UseOutboundGroupSession(sessionId, roomId) ==
    /\ ~tx.active
    /\ hist.uses[<<sessionId, roomId>>] < MaxUses
    /\ LET r == Autocommit(db, Stmt("obGroupSessionMarkUsage",
                                    [sessionId |-> sessionId, roomId |-> roomId]))
           k == <<sessionId, roomId>>
       IN  /\ db' = r.db
           /\ ret' = Call("useOutboundGroupSession", <<sessionId, roomId>>, r.threw, Absent)
           /\ hist' = IF hist.stored[k].found
                      THEN [hist EXCEPT !.uses[k] = @ + 1] ELSE hist
    /\ UNCHANGED tx

\* the keys the specifications draw from: two sessions of one room, and a
\* session of another room with the id of one of them
OgsKeys == {<<"s1", "!r1">>, <<"s2", "!r1">>, <<"s1", "!r2">>}
OneRoomKeys == {<<"s1", "!r1">>, <<"s2", "!r1">>}
SessionsOf(keys, pickles, uses) ==
    { [sessionId |-> k[1], roomId |-> k[2], pickled |-> p, isCurrent |-> c,
       usesLeft |-> u, expiresTs |-> 1000]
        : k \in keys, p \in pickles, c \in BOOLEAN, u \in uses }

OgsActions(keys, sessions) ==
    \/ \E session \in sessions : StoreOutboundGroupSession(session)
    \/ \E k \in keys : GetOutboundGroupSession(k[1], k[2])
    \/ \E k \in keys : GetCurrentOutboundGroupSession(k[2])
    \/ \E k \in keys : UseOutboundGroupSession(k[1], k[2])

\* SpecOGS: two rooms, sessions of either pickle, all with the same usesLeft
NextOGS == OgsActions(OgsKeys, SessionsOf(OgsKeys, Pickles, {MaxUsesLeft}))
SpecOGS == Init /\ [][NextOGS]_vars

\* SpecUsage: one room, sessions of every usesLeft and either pickle
NextUsage ==
    OgsActions(OneRoomKeys, SessionsOf(OneRoomKeys, Pickles, 0..MaxUsesLeft))
SpecUsage == Init /\ [][NextUsage]_vars

----------------------------------------------------------------------------
(* The sent-session ledger *)

SentRow(session, index, device) ==
    [session_id |-> session.sessionId, room_id |-> session.roomId,
     session_index |-> index, user_id |-> device.user_id,
     device_id |-> device.device_id]

StoreSentOutboundGroupSession(session, index, device) ==
    /\ ~tx.active
    /\ LET r == Autocommit(db, Stmt("obSentGroupSessionUpsert",
                    [sessionId |-> session.sessionId, roomId |-> session.roomId,
                     sessionIndex |-> index, userId |-> device.user_id,
                     deviceId |-> device.device_id]))
           k == <<device.user_id, device.device_id, session.roomId>>
       IN  /\ db' = r.db
           /\ ret' = Call("storeSentOutboundGroupSession",
                          <<session, index, device>>, r.threw, Absent)
           /\ hist' = [hist EXCEPT
                !.sentCalls = @ \cup {SentRow(session, index, device)},
                !.sentRepeated = SentRow(session, index, device) \in hist.sentCalls,
                !.lastSent[k] =
                    Found([sessionId |-> session.sessionId, index |-> index])]
    /\ UNCHANGED tx

\* what getLastSentOutboundGroupSession can return on database d: the
\* (sessionId, index) of the row .get() takes, any of the matching rows
getLastSentOutboundGroupSession(d, userId, deviceId, roomId) ==
    LET rows == obSentSelectLastSent(d, [userId |-> userId, deviceId |-> deviceId,
                                         roomId |-> roomId])
    IN  IF rows = {} THEN {Absent}
        ELSE {Found([sessionId |-> r.session_id, index |-> r.session_index])
                : r \in rows}

GetLastSentOutboundGroupSession(userId, deviceId, roomId) ==
    /\ ~tx.active
    /\ \E result \in getLastSentOutboundGroupSession(db, userId, deviceId, roomId) :
            ret' = Call("getLastSentOutboundGroupSession",
                        <<userId, deviceId, roomId>>, FALSE, result)
    /\ UNCHANGED <<db, tx, hist>>

\* SpecSent: two sessions of a room sent at every index to one device, and
\* one of them to another device of the same user
SentSessions == {[sessionId |-> "s1", roomId |-> "!r1"],
                 [sessionId |-> "s2", roomId |-> "!r1"]}
SentDevices == {[user_id |-> "@alice", device_id |-> "DEVA"],
                [user_id |-> "@alice", device_id |-> "DEVB"]}
SentInputs ==
    {<<s, i, dv>> \in SentSessions \X (0..MaxIndex) \X SentDevices :
        dv.device_id = "DEVB" => s.sessionId = "s1"}

NextSent ==
    \/ \E a \in SentInputs : StoreSentOutboundGroupSession(a[1], a[2], a[3])
    \/ \E dv \in SentDevices :
        GetLastSentOutboundGroupSession(dv.user_id, dv.device_id, "!r1")

SpecSent == Init /\ [][NextSent]_vars

----------------------------------------------------------------------------
(* The device directory *)

SetUserDevices(userId, devices) ==
    /\ ~tx.active
    /\ LET r == Transaction(db, setUserDevicesBody(userId, devices))
       IN  /\ db' = r.db
           /\ ret' = Call("setUserDevices", <<userId, devices>>, r.threw, Absent)
           /\ hist' = IF r.threw THEN hist
                      ELSE Recorded(hist, "setUserDevices", <<userId, devices>>)
    /\ UNCHANGED tx

GetUserDevices(userId) ==
    /\ ~tx.active
    /\ ret' = Call("getUserDevices", userId, FALSE, Found(getUserDevices(db, userId)))
    /\ UNCHANGED <<db, tx, hist>>

GetUserDevice(userId, deviceId) ==
    /\ ~tx.active
    /\ ret' = Call("getUserDevice", <<userId, deviceId>>, FALSE,
                   getUserDevice(db, userId, deviceId))
    /\ UNCHANGED <<db, tx, hist>>

FlagUsersOutdated(userIds) ==
    /\ ~tx.active
    /\ LET r == Transaction(db, flagUsersOutdatedBody(userIds))
       IN  /\ db' = r.db
           /\ ret' = Call("flagUsersOutdated", userIds, r.threw, Absent)
           /\ hist' = IF r.threw THEN hist
                      ELSE Recorded(hist, "flagUsersOutdated", userIds)
    /\ UNCHANGED tx

IsUserOutdated(userId) ==
    /\ ~tx.active
    /\ ret' = Call("isUserOutdated", userId, FALSE, Found(isUserOutdated(db, userId)))
    /\ UNCHANGED <<db, tx, hist>>

SeqsUpTo(S, n) == UNION {[1..m -> S] : m \in 0..n}

\* SpecDev: device lists are drawn from three devices, two of them with the
\* same device id and different keys
UserDeviceOf(userId, deviceId, keys) ==
    [user_id |-> userId, device_id |-> deviceId, keys |-> keys]
DevicesOf(userId) ==
    {UserDeviceOf(userId, "DEVA", "keyX"), UserDeviceOf(userId, "DEVA", "keyY"),
     UserDeviceOf(userId, "DEVB", "keyX")}

NextDev ==
    \/ \E userId \in Users :
        \E devices \in SeqsUpTo(DevicesOf(userId), MaxDevices) :
            SetUserDevices(userId, devices)
    \/ \E userId \in Users : GetUserDevices(userId)
    \/ \E userId \in Users, deviceId \in DeviceIds : GetUserDevice(userId, deviceId)
    \/ \E userIds \in SeqsUpTo(Users, MaxBatch) : FlagUsersOutdated(userIds)
    \/ \E userId \in Users : IsUserOutdated(userId)

SpecDev == Init /\ [][NextDev]_vars

----------------------------------------------------------------------------
(* Olm sessions *)

StoreOlmSession(userId, deviceId, session) ==
    /\ ~tx.active
    /\ LET r == Autocommit(db, Stmt("olmSessionUpsert",
                    [userId |-> userId, deviceId |-> deviceId,
                     sessionId |-> session.sessionId,
                     lastDecryptionTs |-> session.lastDecryptionTs,
                     pickled |-> session.pickled]))
       IN  /\ db' = r.db
           /\ ret' = Call("storeOlmSession", <<userId, deviceId, session>>,
                          r.threw, Absent)
           /\ hist' = IF r.threw THEN hist
                      ELSE [hist EXCEPT
                            !.olmLatest[<<userId, deviceId, session.sessionId>>] =
                                Found(session)]
    /\ UNCHANGED tx

\* what getCurrentOlmSession(userId, deviceId) can return on database d
getCurrentOlmSession(d, userId, deviceId) ==
    LET rows == olmSessionCurrentSelect(d, [userId |-> userId,
                                            deviceId |-> deviceId])
    IN  IF rows = {} THEN {Absent}
        ELSE {Found([sessionId |-> r.session_id, pickled |-> r.pickled,
                     lastDecryptionTs |-> r.last_decryption_ts]) : r \in rows}

GetCurrentOlmSession(userId, deviceId) ==
    /\ ~tx.active
    /\ \E result \in getCurrentOlmSession(db, userId, deviceId) :
            ret' = Call("getCurrentOlmSession", <<userId, deviceId>>, FALSE, result)
    /\ UNCHANGED <<db, tx, hist>>

\* SpecOlm: three sessions of one device at every timestamp (one of them with
\* either pickle), and a session of the newest timestamp for another device
\* of the user and for a device of another user
OlmSession(sessionId, ts, pickled) ==
    [sessionId |-> sessionId, pickled |-> pickled, lastDecryptionTs |-> ts]
OlmDevices == {<<"@alice", "DEVA">>, <<"@alice", "DEVB">>, <<"@bob", "DEVA">>}
OlmInputs ==
    {<<"@alice", "DEVA", OlmSession(o, ts, "pickleA")>> :
        o \in OlmSessionIds, ts \in 1..MaxTs}
    \cup {<<"@alice", "DEVA", OlmSession("o1", ts, "pickleB")>> : ts \in 1..MaxTs}
    \cup {<<"@alice", "DEVB", OlmSession("o1", MaxTs, "pickleA")>>,
          <<"@bob", "DEVA", OlmSession("o1", MaxTs, "pickleA")>>}

NextOlm ==
    \/ \E a \in OlmInputs : StoreOlmSession(a[1], a[2], a[3])
    \/ \E dv \in OlmDevices : GetCurrentOlmSession(dv[1], dv[2])

SpecOlm == Init /\ [][NextOlm]_vars

----------------------------------------------------------------------------
(* Identity scalars and room configs *)

\* kvUpsert.run({name, value}) of a setter, and what the call leaves
SetScalar(op, name, value) ==
    /\ ~tx.active
    /\ LET r == Autocommit(db, Stmt("kvUpsert", [name |-> name, value |-> value]))
       IN  /\ db' = r.db
           /\ ret' = Call(op, value, r.threw, Absent)
           /\ hist' = IF r.threw THEN hist
                      ELSE [hist EXCEPT
                            !.kvSet[name] = Found(value),
                            !.kvOverwritten[name] =
                                @ \/ (hist.kvSet[name].found
                                        /\ hist.kvSet[name] # Found(value))]
    /\ UNCHANGED tx

SetDeviceId(deviceId) == SetScalar("setDeviceId", "deviceId", deviceId)

GetDeviceId ==
    /\ ~tx.active
    /\ ret' = Call("getDeviceId", "deviceId", FALSE, getDeviceId(db))
    /\ UNCHANGED <<db, tx, hist>>

SetPickleKey(pickleKey) == SetScalar("setPickleKey", "pickleKey", pickleKey)

GetPickleKey ==
    /\ ~tx.active
    /\ ret' = Call("getPickleKey", "pickleKey", FALSE, getPickleKey(db))
    /\ UNCHANGED <<db, tx, hist>>

SetPickledAccount(pickled) == SetScalar("setPickledAccount", "pickled", pickled)

GetPickledAccount ==
    /\ ~tx.active
    /\ ret' = Call("getPickledAccount", "pickled", FALSE, getPickledAccount(db))
    /\ UNCHANGED <<db, tx, hist>>

\* SpecKv: each scalar set to either of two values, to the empty string or
\* to null
ScalarValues == {"valueA", "valueB", "", Null}

NextKv ==
    \/ \E v \in ScalarValues : SetDeviceId(v)
    \/ \E v \in ScalarValues : SetPickleKey(v)
    \/ \E v \in ScalarValues : SetPickledAccount(v)
    \/ GetDeviceId
    \/ GetPickleKey
    \/ GetPickledAccount

SpecKv == Init /\ [][NextKv]_vars

StoreRoom(roomId, config) ==
    /\ ~tx.active
    /\ LET r == Autocommit(db, Stmt("roomUpsert",
                    [roomId |-> roomId, config |-> JSONStringify(config)]))
       IN  /\ db' = r.db
           /\ ret' = Call("storeRoom", <<roomId, config>>, r.threw, Absent)
           /\ hist' = IF r.threw THEN hist
                      ELSE [hist EXCEPT !.roomStored[roomId] =
                                IF @ = << >> THEN <<config>>
                                ELSE <<@[Len(@)], config>>]
    /\ UNCHANGED tx

\* (mutation: JSON.parse(row?.config) without the check of val, which
\* throws on undefined)
GetRoomParseUnguarded(roomId) ==
    /\ ~tx.active
    /\ ret' = IF roomSelect(db, [roomId |-> roomId]).found
              THEN Call("getRoom", roomId, FALSE, getRoom(db, roomId))
              ELSE Call("getRoom", roomId, TRUE, Absent)
    /\ UNCHANGED <<db, tx, hist>>

GetRoom(roomId) ==
    /\ ~tx.active
    /\ ret' = Call("getRoom", roomId, FALSE, getRoom(db, roomId))
    /\ UNCHANGED <<db, tx, hist>>

\* SpecRooms: configs (Partial<EncryptionEventContent>) with all, some or
\* none of the properties, one of them with a property that is undefined
RoomConfigs ==
    { [algorithm |-> "m.megolm.v1.aes-sha2", rotation_period_ms |-> "604800000",
       rotation_period_msgs |-> "100"],
      [algorithm |-> "m.megolm.v1.aes-sha2", rotation_period_msgs |-> "50"],
      [algorithm |-> "UNKNOWN"],
      [algorithm |-> "m.megolm.v1.aes-sha2", rotation_period_ms |-> Undefined],
      [x \in {} |-> Null] }

NextRooms ==
    \/ \E roomId \in Rooms \cup {Null}, config \in RoomConfigs :
        StoreRoom(roomId, config)
    \/ \E roomId \in Rooms : GetRoom(roomId)

SpecRooms == Init /\ [][NextRooms]_vars

----------------------------------------------------------------------------
(* The transactional methods, one statement at a time.  The method is      *)
(* synchronous: from BEGIN to COMMIT or ROLLBACK no other call of this     *)
(* process runs (every action of the store is guarded by ~tx.active).      *)
(* Nothing an open transaction wrote is in the database another            *)
(* connection reads until COMMIT.                                          *)

\* the method is called and db.transaction(...)() is entered: BEGIN
BeginTransaction(op, arg) ==
    /\ ~tx.active
    /\ tx' = [active |-> TRUE, op |-> op, arg |-> arg, body |-> BodyOf(op, arg),
              pc |-> 1, pre |-> db, work |-> db]
    /\ ret' = Call("BEGIN", <<op, arg>>, FALSE, Absent)
    /\ UNCHANGED <<db, hist>>

\* (mutation: no transaction, each statement commits as it runs)
RunStatementAutocommit ==
    /\ tx.active
    /\ tx.pc <= Len(tx.body)
    /\ Run(tx.work, tx.body[tx.pc]) # SqliteError
    /\ tx' = [tx EXCEPT !.work = Run(tx.work, tx.body[tx.pc]), !.pc = @ + 1]
    /\ db' = Run(tx.work, tx.body[tx.pc])
    /\ UNCHANGED <<ret, hist>>

\* the next statement of the body runs, inside the transaction
RunStatement ==
    /\ tx.active
    /\ tx.pc <= Len(tx.body)
    /\ Run(tx.work, tx.body[tx.pc]) # SqliteError
    /\ tx' = [tx EXCEPT !.work = Run(tx.work, tx.body[tx.pc]), !.pc = @ + 1]
    /\ UNCHANGED <<db, ret, hist>>

\* (mutation: the exception is thrown on without ROLLBACK, what the
\* statements before it wrote stays)
ThrowKeepPartial ==
    /\ tx.active
    /\ tx.pc <= Len(tx.body)
    /\ Run(tx.work, tx.body[tx.pc]) = SqliteError
    /\ db' = tx.work
    /\ tx' = Idle
    /\ ret' = Call(tx.op, tx.arg, TRUE, Absent)
    /\ UNCHANGED hist

\* the next statement throws: ROLLBACK, and the exception is thrown on to
\* the caller (the promise rejects)
ThrowRollback ==
    /\ tx.active
    /\ tx.pc <= Len(tx.body)
    /\ Run(tx.work, tx.body[tx.pc]) = SqliteError
    /\ db' = db
    /\ tx' = Idle
    /\ ret' = Call(tx.op, tx.arg, TRUE, Absent)
    /\ UNCHANGED hist

\* the storage engine fails the next statement (an I/O error): ROLLBACK,
\* and the exception is thrown on to the caller
EngineFailure ==
    /\ tx.active
    /\ tx.pc <= Len(tx.body)
    /\ db' = db
    /\ tx' = Idle
    /\ ret' = Call(tx.op, tx.arg, TRUE, Absent)
    /\ UNCHANGED hist

\* the body is done: COMMIT, the call returns
Commit ==
    /\ tx.active
    /\ tx.pc > Len(tx.body)
    /\ db' = tx.work
    /\ tx' = Idle
    /\ ret' = Call(tx.op, tx.arg, FALSE, Absent)
    /\ hist' = Recorded(hist, tx.op, tx.arg)

\* a read by another connection to the same database file while the
\* transaction is open: it sees the committed database
OtherConnectionRead ==
  /\ tx.active
  /\ UNCHANGED <<db, tx, hist>>
  /\
    \/ ret' = Call("other.getUserDevices", "@alice", FALSE,
                   Found(getUserDevices(db, "@alice")))
    \/ \E userId \in Users :
        ret' = Call("other.isUserOutdated", userId, FALSE,
                    Found(isUserOutdated(db, userId)))
    \/ \E result \in getCurrentOutboundGroupSession(db, "!r1") :
        ret' = Call("other.getCurrentOutboundGroupSession", "!r1", FALSE, result)

\* SpecTxn: device lists of @alice over two devices and one without a
\* device_id, batches of users with a null id among them, sessions of one
\* room with a null pickle among them
TxnDevices ==
    {UserDeviceOf("@alice", "DEVA", "keyX"), UserDeviceOf("@alice", "DEVB", "keyX"),
     UserDeviceOf("@alice", Null, "keyX")}
TxnSessions ==
    SessionsOf(OneRoomKeys, {"pickleA", Null}, {MaxUsesLeft})

TxnCalls ==
    {<<"setUserDevices", <<"@alice", devices>> >> :
        devices \in SeqsUpTo(TxnDevices, MaxDevices)}
    \cup {<<"flagUsersOutdated", userIds>> :
            userIds \in SeqsUpTo(Users \cup {Null}, MaxBatch)}
    \cup {<<"storeOutboundGroupSession", session>> : session \in TxnSessions}

NextTxn ==
    \/ \E c \in TxnCalls : BeginTransaction(c[1], c[2])
    \/ RunStatement
    \/ ThrowRollback
    \/ EngineFailure
    \/ Commit
    \/ OtherConnectionRead
    \/ GetUserDevices("@alice")

SpecTxn == Init /\ [][NextTxn]_vars

----------------------------------------------------------------------------
(* Spec: the methods of every table side by side, each on few inputs (one  *)
(* room with one session and one config, one user with one device, one Olm *)
(* session, one scalar that is set and two that never are), to check what  *)
(* a method of one table does to the other tables.                         *)

Next ==
    \/ \E session \in SessionsOf({<<"s1", "!r1">>}, {"pickleA"}, {MaxUsesLeft}) :
        StoreOutboundGroupSession(session)
    \/ UseOutboundGroupSession("s1", "!r1")
    \/ GetOutboundGroupSession("s1", "!r1")
    \/ GetCurrentOutboundGroupSession("!r1")
    \/ \E index \in {0, 1} :
        StoreSentOutboundGroupSession([sessionId |-> "s1", roomId |-> "!r1"], index,
                                      [user_id |-> "@alice", device_id |-> "DEVA"])
    \/ GetLastSentOutboundGroupSession("@alice", "DEVA", "!r1")
    \/ \E devices \in {<<>>, <<UserDeviceOf("@alice", "DEVA", "keyX")>>} :
        SetUserDevices("@alice", devices)
    \/ GetUserDevices("@alice")
    \/ GetUserDevice("@alice", "DEVA")
    \/ FlagUsersOutdated(<<"@alice">>)
    \/ IsUserOutdated("@alice")
    \/ StoreOlmSession("@alice", "DEVA", OlmSession("o1", 1, "pickleA"))
    \/ GetCurrentOlmSession("@alice", "DEVA")
    \/ SetDeviceId("valueA")
    \/ GetDeviceId
    \/ GetPickleKey
    \/ GetPickledAccount
    \/ StoreRoom("!r1", [algorithm |-> "UNKNOWN"])
    \/ \E roomId \in Rooms : GetRoom(roomId)

Spec == Init /\ [][Next]_vars

----------------------------------------------------------------------------
(* C1: in every room at most one session row has current = 1, and it is    *)
(* the session most recently stored with isCurrent = true: right after     *)
(* such a store getCurrentOutboundGroupSession(room) returns exactly the   *)
(* stored session and getOutboundGroupSession reports isCurrent = false    *)
(* for every other session id of the room.                                 *)
C1_SingleCurrentIsLastStored ==
    /\ \A roomId \in Rooms :
        LET cur == obGroupCurrentSessionSelect(db, [roomId |-> roomId])
        IN  /\ Cardinality(cur) <= 1
            /\ \A r \in cur : hist.lastCurrent[roomId] = Found(r.session_id)
    /\ (ret.op = "storeOutboundGroupSession" /\ ~ret.threw /\ ret.arg.isCurrent)
        => /\ getCurrentOutboundGroupSession(db, ret.arg.roomId) = {Found(ret.arg)}
           /\ \A sessionId \in SessionIds \ {ret.arg.sessionId} :
                LET other == getOutboundGroupSession(db, sessionId, ret.arg.roomId)
                IN  other.found => ~other.value.isCurrent
    /\ (ret.op = "getCurrentOutboundGroupSession" /\ ret.val.found)
        => hist.lastCurrent[ret.arg] = Found(ret.val.value.sessionId)

\* s1 was last stored as current in !r1, then s2 was stored as current
\* there: s1 now reads as not current
C1_Witness ==
    /\ ret.op = "storeOutboundGroupSession"
    /\ ret.arg.isCurrent /\ ret.arg.sessionId = "s2" /\ ret.arg.roomId = "!r1"
    /\ hist.stored[<<"s1", "!r1">>].found
    /\ hist.stored[<<"s1", "!r1">>].value.isCurrent
    /\ ~getOutboundGroupSession(db, "s1", "!r1").value.isCurrent
    /\ \E r \in db.outbound_group_sessions : r.room_id = "!r2" /\ r.current = 1

(* C2: a row stored with usesLeft = U and used N times since reports       *)
(* usesLeft = U - N, also for N > U; using a session never deletes its row *)
(* and never demotes it, whatever its usesLeft.                            *)
C2_UsesLeftIsStoredMinusUses ==
    \A k \in AllSessionKeys :
        hist.stored[k].found =>
            LET got == getOutboundGroupSession(db, k[1], k[2])
                was == hist.stored[k].value
            IN  /\ got.found
                /\ got.value.usesLeft = was.usesLeft - hist.uses[k]
                /\ got.value.pickled = was.pickled
                /\ got.value.expiresTs = was.expiresTs
                /\ (was.isCurrent /\ hist.lastCurrent[k[2]] = Found(k[1]))
                        => got.value.isCurrent

\* a current session used more often than its usesLeft allowed
C2_Witness ==
    /\ ret.op = "useOutboundGroupSession"
    /\ \E k \in AllSessionKeys :
        /\ ret.arg = k
        /\ hist.stored[k].found
        /\ hist.stored[k].value.usesLeft = 1
        /\ hist.uses[k] = 2
        /\ getOutboundGroupSession(db, k[1], k[2]).value.usesLeft = -1
        /\ getOutboundGroupSession(db, k[1], k[2]).value.isCurrent

UsesLeftOf(d, k) == getOutboundGroupSession(d, k[1], k[2]).value.usesLeft

(* C3 as claimed: the usesLeft of an existing row never increases from one *)
(* state to the next, whatever the operation.                              *)
C3_UsesLeftNeverIncreases ==
    [][\A k \in AllSessionKeys :
        (getOutboundGroupSession(db, k[1], k[2]).found
            /\ getOutboundGroupSession(db', k[1], k[2]).found)
        => UsesLeftOf(db', k) <= UsesLeftOf(db, k)]_vars

(* C3 amended: the usesLeft of an existing row never increases, except by  *)
(* a storeOutboundGroupSession of that same (sessionId, roomId), which     *)
(* sets it to the usesLeft of the session passed in.                       *)
C3_UsesLeftIncreasesOnlyByStore ==
    [][\A k \in AllSessionKeys :
        (getOutboundGroupSession(db, k[1], k[2]).found
            /\ getOutboundGroupSession(db', k[1], k[2]).found
            /\ UsesLeftOf(db', k) > UsesLeftOf(db, k))
        => /\ ret'.op = "storeOutboundGroupSession"
           /\ <<ret'.arg.sessionId, ret'.arg.roomId>> = k
           /\ UsesLeftOf(db', k) = ret'.arg.usesLeft]_vars

\* s2 was used down to zero, then s1 was stored as current in its room:
\* s2 is demoted and keeps its usesLeft
C3_Witness ==
    /\ ret.op = "storeOutboundGroupSession"
    /\ ret.arg.sessionId = "s1" /\ ret.arg.roomId = "!r1" /\ ret.arg.isCurrent
    /\ hist.stored[<<"s2", "!r1">>].found
    /\ hist.stored[<<"s2", "!r1">>].value.usesLeft = 1
    /\ hist.uses[<<"s2", "!r1">>] = 1
    /\ UsesLeftOf(db, <<"s2", "!r1">>) = 0

(* C4: storeSentOutboundGroupSession is idempotent: a call that repeats   *)
(* an earlier call's (session, index, device) does not throw and leaves    *)
(* the whole database as it was, and every call made has exactly one       *)
(* ledger row.                                                             *)
C4_StoreSentIdempotent ==
    /\ [](\A c \in hist.sentCalls :
            Cardinality({r \in db.sent_outbound_group_sessions : r = c}) = 1)
    /\ [][(ret'.op = "storeSentOutboundGroupSession"
            /\ SentRow(ret'.arg[1], ret'.arg[2], ret'.arg[3]) \in hist.sentCalls)
          => (db' = db /\ ~ret'.threw)]_vars

\* the same row recorded a second time, other rows being in the ledger
C4_Witness ==
    /\ ret.op = "storeSentOutboundGroupSession"
    /\ hist.sentRepeated
    /\ ~ret.threw
    /\ Cardinality(db.sent_outbound_group_sessions) >= 2

(* C5 as claimed: getLastSentOutboundGroupSession(userId, deviceId,        *)
(* roomId) returns the (sessionId, index) recorded by the latest           *)
(* storeSentOutboundGroupSession call for that device and room, and null   *)
(* only when there is no such row.                                         *)
C5_LastSentIsLatestCall ==
    ret.op = "getLastSentOutboundGroupSession"
        => ret.val = hist.lastSent[ret.arg]

\* the devices of a list, one per device id: the last entry with the id
LastPerDeviceId(devices) ==
    {devices[i] : i \in {j \in 1..Len(devices) :
        \A m \in (j + 1)..Len(devices) : devices[m].device_id # devices[j].device_id}}

DistinctIds(devices) ==
    \A i, j \in 1..Len(devices) :
        devices[i].device_id = devices[j].device_id => i = j

(* C6: after setUserDevices(u, L) the device rows of u are the devices of L, *)
(* one per device id (all of L when its ids are distinct, none when L is     *)
(* empty): getUserDevices(u) returns them, getUserDevice(u, d) returns the   *)
(* device of L with id d and null for every id not in L, u is not outdated,  *)
(* and the rows of every other user are as they were.                        *)
C6_SetUserDevicesReplaces ==
    /\ []((ret.op = "setUserDevices" /\ ~ret.threw) =>
            LET u == ret.arg[1]
                L == ret.arg[2]
            IN  /\ getUserDevices(db, u) = LastPerDeviceId(L)
                /\ DistinctIds(L) => getUserDevices(db, u) = {L[i] : i \in 1..Len(L)}
                /\ L = << >> => getUserDevices(db, u) = {}
                /\ \A d \in DeviceIds :
                    IF \E i \in 1..Len(L) : L[i].device_id = d
                    THEN /\ getUserDevice(db, u, d).found
                         /\ getUserDevice(db, u, d).value \in LastPerDeviceId(L)
                         /\ getUserDevice(db, u, d).value.device_id = d
                    ELSE getUserDevice(db, u, d) = Absent
                /\ ~isUserOutdated(db, u))
    /\ [][ret'.op = "setUserDevices" =>
            \A u \in Users \ {ret'.arg[1]} :
                /\ userDevicesSelect(db', [userId |-> u])
                        = userDevicesSelect(db, [userId |-> u])
                /\ userSelect(db', [userId |-> u]) = userSelect(db, [userId |-> u])]_vars

\* @alice had devices and was flagged outdated; her list is replaced by the
\* empty list while @bob keeps a device
C6_Witness ==
    /\ ret.op = "setUserDevices"
    /\ ret.arg = <<"@alice", << >> >>
    /\ getUserDevices(db, "@alice") = {}
    /\ getUserDevices(db, "@bob") # {}
    /\ isUserOutdated(db, "@bob")

(* C7: isUserOutdated(u) is false exactly when the last of setUserDevices(u) *)
(* and flagUsersOutdated([.. u ..]) was setUserDevices; it is true for a     *)
(* user the store has never seen and after flagUsersOutdated, which leaves   *)
(* the answer for every user not in its list unchanged.                      *)
C7_OutdatedUnlessDevicesSet ==
    /\ [](\A u \in Users : isUserOutdated(db, u) = (hist.lastDevOp[u] # "set"))
    /\ []((ret.op = "isUserOutdated") =>
            ret.val = Found(hist.lastDevOp[ret.arg] # "set"))
    /\ [][ret'.op = "flagUsersOutdated" =>
            \A u \in Users :
                IF \E i \in 1..Len(ret'.arg) : ret'.arg[i] = u
                THEN isUserOutdated(db', u)
                ELSE isUserOutdated(db', u) = isUserOutdated(db, u)]_vars

\* @alice's devices were set and she was flagged afterwards, @bob's devices
\* are set, and a user was asked about
C7_Witness ==
    /\ ret.op = "isUserOutdated"
    /\ hist.lastDevOp["@alice"] = "flag"
    /\ getUserDevices(db, "@alice") # {}
    /\ hist.lastDevOp["@bob"] = "set"
    /\ ret.val = Found(FALSE)

\* the sessions stored for (userId, deviceId), each session id with the
\* session of its most recent storeOlmSession call
OlmStoredFor(userId, deviceId) ==
    {hist.olmLatest[<<userId, deviceId, o>>].value :
        o \in {x \in OlmSessionIds : hist.olmLatest[<<userId, deviceId, x>>].found}}

(* C8: getCurrentOlmSession(u, d) returns a session stored for (u, d), as   *)
(* its most recent storeOlmSession call gave it, whose lastDecryptionTs no  *)
(* session stored for (u, d) exceeds, whatever the order of the stores and  *)
(* whatever is stored for other users and devices; it returns null exactly  *)
(* when nothing is stored for (u, d).                                       *)
C8_CurrentOlmIsMaxTs ==
    /\ \A dv \in Users \X DeviceIds :
        \A result \in getCurrentOlmSession(db, dv[1], dv[2]) :
            IF OlmStoredFor(dv[1], dv[2]) = {}
            THEN result = Absent
            ELSE /\ result.found
                 /\ result.value \in OlmStoredFor(dv[1], dv[2])
                 /\ \A o \in OlmStoredFor(dv[1], dv[2]) :
                        o.lastDecryptionTs <= result.value.lastDecryptionTs
    /\ (ret.op = "getCurrentOlmSession")
        => ret.val \in getCurrentOlmSession(db, ret.arg[1], ret.arg[2])

\* timestamps 1, 3, 2: the session with 3 is returned, although a session of
\* another device is as new and o1 was stored again with another pickle
C8_Witness ==
    /\ ret.op = "getCurrentOlmSession"
    /\ ret.arg = <<"@alice", "DEVA">>
    /\ OlmStoredFor("@alice", "DEVA") =
            {OlmSession("o1", 1, "pickleB"), OlmSession("o2", 3, "pickleA"),
             OlmSession("o3", 2, "pickleA")}
    /\ OlmStoredFor("@alice", "DEVB") # {}
    /\ ret.val = Found(OlmSession("o2", 3, "pickleA"))

(* C9: setUserDevices, storeOutboundGroupSession and flagUsersOutdated are *)
(* atomic for every other reader.  While one of them runs, the database    *)
(* read by another connection is the one from before the call, no other    *)
(* call of this process completes, and every interleaved read returned     *)
(* what the pre-state holds; when the call returns, the database is the    *)
(* whole result of the call's statements.                                  *)
C9_TransactionsAtomic ==
    /\ [](tx.active =>
            /\ db = tx.pre
            /\ ret.op = "other.getUserDevices"
                => ret.val = Found(getUserDevices(tx.pre, ret.arg))
            /\ ret.op = "other.isUserOutdated"
                => ret.val = Found(isUserOutdated(tx.pre, ret.arg))
            /\ ret.op = "other.getCurrentOutboundGroupSession"
                => ret.val \in getCurrentOutboundGroupSession(tx.pre, ret.arg))
    /\ [][tx.active =>
            \/ /\ tx'.active
               /\ db' = db
               /\ ret' = ret \/ ret'.op \in {"other.getUserDevices",
                    "other.isUserOutdated", "other.getCurrentOutboundGroupSession"}
            \/ /\ ~tx'.active
               /\ ret'.op = tx.op /\ ret'.arg = tx.arg
               /\ db' = IF ret'.threw THEN tx.pre
                        ELSE Transaction(tx.pre, tx.body).db]_vars

\* s1 is current in !r1 and s2 is being stored as current: inside the
\* transaction no session of the room is current, and another connection
\* has just read s1 as the current session
C9_Witness ==
    /\ tx.active
    /\ tx.op = "storeOutboundGroupSession"
    /\ tx.arg.sessionId = "s2" /\ tx.arg.isCurrent
    /\ tx.pc = 2
    /\ getCurrentOutboundGroupSession(tx.work, "!r1") = {Absent}
    /\ ret.op = "other.getCurrentOutboundGroupSession"
    /\ ret.val.found
    /\ ret.val.value.sessionId = "s1"
    /\ getUserDevices(db, "@alice") # {}

(* C10: when a statement of setUserDevices, flagUsersOutdated or           *)
(* storeOutboundGroupSession fails, the call ends there, throws to its     *)
(* caller, and leaves the database (outdated flags, device rows, current   *)
(* flags) as it was before the call: nothing of the statements that ran    *)
(* before the failing one remains, and the call is not run again.          *)
C10_FailureRollsBack ==
    /\ [][(tx.active /\ tx' # tx /\ tx.pc <= Len(tx.body)
            /\ Run(tx.work, tx.body[tx.pc]) = SqliteError)
          => /\ ret' = Call(tx.op, tx.arg, TRUE, Absent)
             /\ tx' = Idle
             /\ db' = tx.pre
             /\ hist' = hist]_vars
    /\ [][(tx.active /\ ret'.threw) => (db' = tx.pre /\ db' = db /\ tx' = Idle)]_vars
    /\ [][(tx.active /\ ~tx'.active /\ Transaction(tx.pre, tx.body).threw)
            => ret'.threw]_vars

\* @alice has device DEVA and is flagged outdated; setUserDevices with DEVB
\* and then a device without an id has thrown: DEVA is still her only
\* device and she is still outdated
C10_Witness ==
    /\ ~tx.active
    /\ ret.op = "setUserDevices"
    /\ ret.threw
    /\ ret.arg = <<"@alice", <<UserDeviceOf("@alice", "DEVB", "keyX"),
                               UserDeviceOf("@alice", Null, "keyX")>> >>
    /\ getUserDevices(db, "@alice") = {UserDeviceOf("@alice", "DEVA", "keyX")}
    /\ isUserOutdated(db, "@alice")
    /\ hist.lastDevOp["@alice"] = "flag"
    /\ getCurrentOutboundGroupSession(db, "!r1") # {Absent}

\* the members of an object whose value is defined (what structural
\* equality of JSON values compares)
Defined(o) == [f \in {g \in DOMAIN o : o[g] # Undefined} |-> o[f]]

ScalarOf(d, name) ==
    CASE name = "deviceId" -> getDeviceId(d)
      [] name = "pickleKey" -> getPickleKey(d)
      [] name = "pickled" -> getPickledAccount(d)

(* C12: each getter returns the value its scalar's setter was last called   *)
(* with, absent when the setter was never called; table kv holds at most    *)
(* one row per scalar; a setter changes what the other two getters return   *)
(* in nothing.                                                              *)
C12_ScalarLastWriteWins ==
    /\ [](\A name \in ScalarNames :
            /\ ScalarOf(db, name) = hist.kvSet[name]
            /\ Cardinality({r \in db.kv : r.name = name}) <= 1)
    /\ []((ret.op \in {"getDeviceId", "getPickleKey", "getPickledAccount"})
            => ret.val = hist.kvSet[ret.arg])
    /\ [][\A name \in ScalarNames :
            ScalarOf(db', name) # ScalarOf(db, name)
                => /\ ret'.op = CASE name = "deviceId" -> "setDeviceId"
                                  [] name = "pickleKey" -> "setPickleKey"
                                  [] name = "pickled" -> "setPickledAccount"
                   /\ ScalarOf(db', name) = Found(ret'.arg)]_vars

\* the pickle key was set, set again to another value and read, while the
\* device id holds a value of its own and no account was ever pickled
C12_Witness ==
    /\ ret.op = "getPickleKey"
    /\ ret.val = Found("valueB")
    /\ hist.kvOverwritten["pickleKey"]
    /\ getDeviceId(db) = Found("valueA")
    /\ getPickledAccount(db) = Absent

\* the get accessors
Getters ==
    {"getDeviceId", "getPickleKey", "getPickledAccount", "getRoom",
     "getUserDevices", "getUserDevice", "getOutboundGroupSession",
     "getCurrentOutboundGroupSession", "getLastSentOutboundGroupSession",
     "getCurrentOlmSession"}

\* whether the accessor op called with arg finds no row in database d
NoRow(d, op, arg) ==
    CASE op \in {"getDeviceId", "getPickleKey", "getPickledAccount"} ->
            ~\E r \in d.kv : r.name = arg
      [] op = "getRoom" -> ~\E r \in d.rooms : r.room_id = arg
      [] op = "getUserDevices" -> ~\E r \in d.user_devices : r.user_id = arg
      [] op = "getUserDevice" ->
            ~\E r \in d.user_devices : r.user_id = arg[1] /\ r.device_id = arg[2]
      [] op = "getOutboundGroupSession" ->
            ~\E r \in d.outbound_group_sessions :
                r.session_id = arg[1] /\ r.room_id = arg[2]
      [] op = "getCurrentOutboundGroupSession" ->
            ~\E r \in d.outbound_group_sessions : r.room_id = arg /\ r.current = 1
      [] op = "getLastSentOutboundGroupSession" ->
            ~\E r \in d.sent_outbound_group_sessions :
                r.user_id = arg[1] /\ r.device_id = arg[2] /\ r.room_id = arg[3]
      [] op = "getCurrentOlmSession" ->
            ~\E r \in d.olm_sessions : r.user_id = arg[1] /\ r.device_id = arg[2]

(* C13: a get accessor never throws and never changes the store, and one    *)
(* called with a key that has no row returns an absent value               *)
(* (getUserDevices: an empty list).                                        *)
C13_NotFoundIsAbsent ==
    /\ [][ret'.op \in Getters => (~ret'.threw /\ db' = db)]_vars
    /\ []((ret.op \in Getters /\ NoRow(db, ret.op, ret.arg)) =>
            /\ ~ret.threw
            /\ ret.val = IF ret.op = "getUserDevices" THEN Found({}) ELSE Absent)

\* getRoom of a room never stored returned null, while another room has a
\* config and the other tables have rows
C13_Witness ==
    /\ ret.op = "getRoom"
    /\ ret.arg = "!r2"
    /\ ret.val = Absent
    /\ ~ret.threw
    /\ getRoom(db, "!r1").found
    /\ db.kv # {}
    /\ db.user_devices # {}
    /\ db.outbound_group_sessions # {}
    /\ db.olm_sessions # {}

(* C14: the sent-session ledger is append-only: a row that is in the       *)
(* ledger is in it, unchanged, after every step, whatever the operation,   *)
(* and every row recorded by storeSentOutboundGroupSession is in it.       *)
C14_LedgerAppendOnly ==
    /\ [](hist.sentCalls \subseteq db.sent_outbound_group_sessions)
    /\ [][db.sent_outbound_group_sessions
            \subseteq db'.sent_outbound_group_sessions]_vars
    /\ [][ret'.op # "storeSentOutboundGroupSession"
            => db'.sent_outbound_group_sessions = db.sent_outbound_group_sessions]_vars

\* both indices of s1 are in the ledger for @alice's device, after which s1
\* was used, stored again as the current session of the room and @alice's
\* device list was replaced by the empty list
C14_Witness ==
    /\ Cardinality(db.sent_outbound_group_sessions) = 2
    /\ ret.op = "setUserDevices"
    /\ ret.arg = <<"@alice", << >> >>
    /\ hist.stored[<<"s1", "!r1">>].found
    /\ hist.stored[<<"s1", "!r1">>].value.isCurrent
    /\ hist.uses[<<"s1", "!r1">>] = 0
    /\ UsesLeftOf(db, <<"s1", "!r1">>) = MaxUsesLeft
    /\ getLastSentOutboundGroupSession(db, "@alice", "DEVA", "!r1") # {Absent}

\* whether table users has a row of the user
UserRow(d, userId) == userSelect(d, [userId |-> userId]).found

(* C15 as claimed: a user row exists only if setUserDevices was called for *)
(* the user at some earlier point.                                         *)
C15_UserRowImpliesDevicesSet ==
    \A u \in Users : UserRow(db, u) => hist.devicesSet[u]

(* C15 amended: a user row exists only if setUserDevices or                *)
(* flagUsersOutdated was called for the user; a row that is not outdated   *)
(* exists only if setUserDevices was; no other operation creates a user    *)
(* row, and none removes one.                                              *)
C15_UserRowImpliesSetOrFlagged ==
    /\ [](\A u \in Users :
            /\ UserRow(db, u) <=> hist.lastDevOp[u] # "none"
            /\ (UserRow(db, u) /\ ~isUserOutdated(db, u)) => hist.devicesSet[u])
    /\ [][\A u \in Users :
            /\ UserRow(db, u) => UserRow(db', u)
            /\ (~UserRow(db, u) /\ UserRow(db', u)) =>
                \/ ret'.op = "setUserDevices" /\ ret'.arg[1] = u
                \/ /\ ret'.op = "flagUsersOutdated"
                   /\ \E i \in 1..Len(ret'.arg) : ret'.arg[i] = u]_vars

\* @alice was flagged outdated without her devices ever having been set:
\* she has a row, and the other tables have rows too
C15_Witness ==
    /\ UserRow(db, "@alice")
    /\ ~hist.devicesSet["@alice"]
    /\ hist.lastDevOp["@alice"] = "flag"
    /\ isUserOutdated(db, "@alice")
    /\ db.outbound_group_sessions # {}
    /\ db.olm_sessions # {}

\* the keys of the rows of the outbound group session and Olm session tables
OgsRowKeys(d) == {<<r.session_id, r.room_id>> : r \in d.outbound_group_sessions}
OlmRowKeys(d) == {<<r.user_id, r.device_id, r.session_id>> : r \in d.olm_sessions}

(* C16: flagUsersOutdated leaves every device row as it was, so that        *)
(* getUserDevices and getUserDevice return the same before and after; a     *)
(* device row of user u goes or changes only by setUserDevices(u, ..); no   *)
(* operation removes an outbound group session row or an Olm session row.   *)
C16_FlagsDoNotDelete ==
    /\ [][ret'.op = "flagUsersOutdated" =>
            /\ db'.user_devices = db.user_devices
            /\ \A u \in Users :
                /\ getUserDevices(db', u) = getUserDevices(db, u)
                /\ \A dv \in DeviceIds :
                    getUserDevice(db', u, dv) = getUserDevice(db, u, dv)]_vars
    /\ [][\A r \in db.user_devices :
            r \notin db'.user_devices
                => (ret'.op = "setUserDevices" /\ ret'.arg[1] = r.user_id)]_vars
    /\ [][/\ OgsRowKeys(db) \subseteq OgsRowKeys(db')
          /\ OlmRowKeys(db) \subseteq OlmRowKeys(db')]_vars

\* @alice has a device and has just been flagged outdated; the session of
\* the room has been used past its usesLeft and is still stored, as is the
\* Olm session
C16_Witness ==
    /\ ret.op = "flagUsersOutdated"
    /\ ~ret.threw
    /\ isUserOutdated(db, "@alice")
    /\ getUserDevice(db, "@alice", "DEVA").found
    /\ getOutboundGroupSession(db, "s1", "!r1").found
    /\ UsesLeftOf(db, <<"s1", "!r1">>) < 0
    /\ getCurrentOlmSession(db, "@alice", "DEVA") # {Absent}

(* C17: a storeOutboundGroupSession(session) step leaves every row of       *)
(* another room as it was, current flag included, also a row with the same  *)
(* sessionId; of another session of the session's room it changes at most   *)
(* the current flag, to 0, and never pickled, uses_left or expires_ts; the  *)
(* only row it adds is the session's.                                       *)
C17_StoreTouchesOnlyItsRoom ==
    [][ret'.op = "storeOutboundGroupSession" =>
        /\ \A r \in db.outbound_group_sessions :
            /\ r.room_id # ret'.arg.roomId => r \in db'.outbound_group_sessions
            /\ (r.room_id = ret'.arg.roomId /\ r.session_id # ret'.arg.sessionId) =>
                \/ r \in db'.outbound_group_sessions
                \/ [r EXCEPT !.current = 0] \in db'.outbound_group_sessions
        /\ OgsRowKeys(db') \subseteq
                OgsRowKeys(db) \cup {<<ret'.arg.sessionId, ret'.arg.roomId>>}]_vars

\* s1 was stored as current in !r1 while s1 of !r2 is current there and s2
\* of !r1, stored as current with pickleB and used once, is demoted with
\* its pickle and usesLeft kept
C17_Witness ==
    /\ ret.op = "storeOutboundGroupSession"
    /\ ~ret.threw
    /\ ret.arg.sessionId = "s1" /\ ret.arg.roomId = "!r1" /\ ret.arg.isCurrent
    /\ getOutboundGroupSession(db, "s1", "!r2").found
    /\ getOutboundGroupSession(db, "s1", "!r2").value.isCurrent
    /\ hist.stored[<<"s2", "!r1">>].found
    /\ hist.stored[<<"s2", "!r1">>].value.isCurrent
    /\ hist.uses[<<"s2", "!r1">>] = 1
    /\ getOutboundGroupSession(db, "s2", "!r1").value =
            [hist.stored[<<"s2", "!r1">>].value EXCEPT
                !.isCurrent = FALSE, !.usesLeft = @ - 1]
    /\ getOutboundGroupSession(db, "s2", "!r1").value.pickled = "pickleB"

(* C18: a storeOutboundGroupSession step with isCurrent = false leaves the  *)
(* current rows of the room as they were, unless the session stored is the  *)
(* current one: then the room has no current session and                    *)
(* getCurrentOutboundGroupSession returns null.  A room without a current   *)
(* session gets one only by a store with isCurrent = true for that room.    *)
C18_NonCurrentStoreDemotesNothingElse ==
    /\ [][(ret'.op = "storeOutboundGroupSession" /\ ~ret'.threw
                /\ ~ret'.arg.isCurrent) =>
            LET cur == obGroupCurrentSessionSelect(db, [roomId |-> ret'.arg.roomId])
            IN  IF \E r \in cur : r.session_id = ret'.arg.sessionId
                THEN getCurrentOutboundGroupSession(db', ret'.arg.roomId) = {Absent}
                ELSE obGroupCurrentSessionSelect(db', [roomId |-> ret'.arg.roomId])
                        = cur]_vars
    /\ [][\A roomId \in Rooms :
            (getCurrentOutboundGroupSession(db, roomId) = {Absent}
                /\ getCurrentOutboundGroupSession(db', roomId) # {Absent})
            => (ret'.op = "storeOutboundGroupSession" /\ ret'.arg.isCurrent
                    /\ ret'.arg.roomId = roomId)]_vars

\* s1, the current session of !r1, was stored again with isCurrent = false:
\* the room has sessions and none is current
C18_Witness ==
    /\ ret.op = "storeOutboundGroupSession"
    /\ ~ret.threw
    /\ ret.arg.sessionId = "s1" /\ ret.arg.roomId = "!r1" /\ ~ret.arg.isCurrent
    /\ hist.lastCurrent["!r1"] = Found("s1")
    /\ getOutboundGroupSession(db, "s2", "!r1").found
    /\ getCurrentOutboundGroupSession(db, "!r1") = {Absent}
    /\ getCurrentOutboundGroupSession(db, "!r2") # {Absent}

(* C19: a useOutboundGroupSession(sessionId, roomId) step does not throw;   *)
(* the row of (sessionId, roomId) has its uses_left one lower and is        *)
(* otherwise as it was, every other row is as it was, no row is added, the  *)
(* other tables are as they were; when no row matches nothing changes.      *)
C19_UseTouchesOnlyItsRow ==
    [][ret'.op = "useOutboundGroupSession" =>
        /\ ~ret'.threw
        /\ \A r \in db.outbound_group_sessions :
            IF <<r.session_id, r.room_id>> = ret'.arg
            THEN [r EXCEPT !.uses_left = @ - 1] \in db'.outbound_group_sessions
            ELSE r \in db'.outbound_group_sessions
        /\ OgsRowKeys(db') = OgsRowKeys(db)
        /\ [db' EXCEPT !.outbound_group_sessions = db.outbound_group_sessions] = db
        /\ ret'.arg \notin OgsRowKeys(db) => db' = db]_vars

\* s1 of !r1, current with pickleB, was used: its usesLeft is one lower and
\* it is still current, s1 of !r2 and s2 of !r1 have the usesLeft stored
C19_Witness ==
    /\ ret.op = "useOutboundGroupSession"
    /\ ret.arg = <<"s1", "!r1">>
    /\ hist.uses[<<"s1", "!r1">>] = 1
    /\ getOutboundGroupSession(db, "s1", "!r1").value =
            [hist.stored[<<"s1", "!r1">>].value EXCEPT !.usesLeft = @ - 1]
    /\ getOutboundGroupSession(db, "s1", "!r1").value.isCurrent
    /\ getOutboundGroupSession(db, "s1", "!r1").value.pickled = "pickleB"
    /\ getOutboundGroupSession(db, "s1", "!r2").found
    /\ UsesLeftOf(db, <<"s1", "!r2">>) = MaxUsesLeft
    /\ getOutboundGroupSession(db, "s2", "!r1").found
    /\ UsesLeftOf(db, <<"s2", "!r1">>) = MaxUsesLeft

====
